---- MODULE Spec2Model ----
(***************************************************************************)
(* The upload / list / download / delete workflow of the audio front-end.  *)
(*                                                                         *)
(* The repository holds three variants of the App component:               *)
(*   "full"         src/src/App.tsx      tabs, list-all, streaming         *)
(*                                       download, delete                  *)
(*   "compression"  src/unnamed/part_000 upload form with compression      *)
(*                                       metadata, no sample browser       *)
(*   "sample"       src/unnamed/part_001 tabs, random list, presigned-url  *)
(*                                       download, no delete               *)
(* The variant is fixed in Init.  Every await of the handlers is a         *)
(* suspension point: a handler is one action up to its await, and one      *)
(* action per way the awaited request can settle.                          *)
(***************************************************************************)
EXTENDS Integers, Sequences, FiniteSets, TLC

\* ---- bounds ----
MaxFiles == 2        \* files the picker offers
NumSongs == 2        \* songs the backend knows of
MaxInFlight == 2     \* upload requests outstanding when submit events bypass the button
MaxQueue == 3        \* length of the queues handleRemoveFile is applied to on its own

\* ---- values ----
Variants == {"full", "compression", "sample"}

Undefined == "<undefined>"     \* a JSON field the backend left out

FileName(i) ==
  CASE i = 1 -> "a.mp3" [] i = 2 -> "b.wav" [] i = 3 -> "c.flac" [] i = 4 -> "d.ogg"
    [] OTHER -> "e.aac"

SongId(i) == "s" \o ToString(i)

SongIds == {SongId(i) : i \in 1..NumSongs}

\* the sequences the picker can hand to the change event: the subsequences of
\* <<FileName(1), ..., FileName(n)>>
RECURSIVE SelectionsUpTo(_)
SelectionsUpTo(n) ==
  IF n = 0 THEN {<<>>}
  ELSE LET rest == SelectionsUpTo(n - 1)
       IN  rest \cup {Append(s, FileName(n)) : s \in rest}

Selections == SelectionsUpTo(MaxFiles)

\* what a list endpoint can return in data.songs: the subsequences of
\* <<SongId(1), ..., SongId(n)>>
RECURSIVE SongListsUpTo(_)
SongListsUpTo(n) ==
  IF n = 0 THEN {<<>>}
  ELSE LET rest == SongListsUpTo(n - 1)
       IN  rest \cup {Append(s, SongId(n)) : s \in rest}

SongLists == SongListsUpTo(NumSongs)

\* the message field of a backend reply: left out, empty, or a text
UploadMessages == {Undefined, "", "3 files received"}
ListMessages == {Undefined, "2 songs found"}
DeleteMessages == {Undefined, "", "Song not found"}

\* the options of the compression select (part_000 line 15), cut to one
\* ordinary format and the sentinel; "" is the placeholder option
compressionOptions == {"mp3", "other"}
CustomTexts == {"", "  ", "custom Dolby mix"}

\* JavaScript truthiness of a string-or-undefined value, and a || b
Truthy(v) == v # Undefined /\ v # ""
OrElse(a, b) == IF Truthy(a) THEN a ELSE b

\* String.prototype.trim on the texts above
Trim(s) == IF s = "  " THEN "" ELSE s

VARIABLES
  variant,            \* which App component runs
  activeTab,          \* useState<TabType>
  files,              \* useState<File[]>: the queue, as file names
  inputValue,         \* the native file input's selection (fileInputRef.current.value)
  message,            \* useState(''): the status message
  uploading,          \* useState(false)
  isCompressed,       \* part_000: useState(false)
  compressionType,    \* part_000: useState('')
  customCompression,  \* part_000: useState('')
  uploadReqs,         \* POST /upload requests in flight: a sequence of FormData
  songs,              \* useState<Song[]>: the snapshot, as song ids
  loadingSongs,       \* useState(false)
  listReqs,           \* list requests in flight, each with the ids whose deletion
                      \* succeeded since it was issued (history)
  downloadingSongs,   \* useState<Set<string>>
  dlReqs,             \* download requests in flight, per song id (a count)
  saved,              \* link.click() has handed a file to the browser
  deletingSongs,      \* useState<Set<string>> (full variant)
  delReqs             \* delete requests in flight, per song id (a count)

uploadVars == <<files, inputValue, uploading, uploadReqs>>
compressionVars == <<isCompressed, compressionType, customCompression>>
listVars == <<songs, loadingSongs, listReqs>>
downloadVars == <<downloadingSongs, dlReqs, saved>>
deleteVars == <<deletingSongs, delReqs>>

vars == <<variant, activeTab, message, uploadVars, compressionVars, listVars,
          downloadVars, deleteVars>>

Init ==
  /\ variant \in Variants
  /\ activeTab = "upload"
  /\ files = <<>>
  /\ inputValue = <<>>
  /\ message = ""
  /\ uploading = FALSE
  /\ isCompressed = FALSE
  /\ compressionType = ""
  /\ customCompression = ""
  /\ uploadReqs = <<>>
  /\ songs = <<>>
  /\ loadingSongs = FALSE
  /\ listReqs = <<>>
  /\ downloadingSongs = {}
  /\ dlReqs = [id \in SongIds |-> 0]
  /\ saved = FALSE
  /\ deletingSongs = {}
  /\ delReqs = [id \in SongIds |-> 0]

\* ---- what is rendered ----
HasTabs == variant \in {"full", "sample"}
HasCompression == variant = "compression"
HasDelete == variant = "full"

\* the upload form is rendered (App.tsx 250, part_001 179; always in part_000)
FormMounted == HasTabs => activeTab = "upload"
\* the sample browser is rendered (App.tsx 295, part_001 224; never in part_000)
SamplesMounted == HasTabs /\ activeTab = "samples"

\* the file input's disabled attribute (App.tsx 263, part_001 192; none in part_000)
FileInputDisabled == HasTabs /\ uploading

\* ---- the upload form ----

\* handleFileChange: the change event of the file input.  The browser fires it
\* only when the selection differs from the control's current value.
handleFileChange(selectedFiles) ==
  /\ FormMounted
  /\ ~FileInputDisabled
  /\ selectedFiles # inputValue
  /\ inputValue' = selectedFiles
  /\ files' = selectedFiles
  /\ message' = ""
  /\ UNCHANGED <<variant, activeTab, uploading, uploadReqs, compressionVars,
                 listVars, downloadVars, deleteVars>>

\* the filter dropping the entry after the one asked for
RemoveIndex_OffByOne(prev, indexToRemove) ==
  LET kept == {i \in 1..Len(prev) : i # indexToRemove + 1}
      at(j) == CHOOSE i \in kept : Cardinality({k \in kept : k < i}) = j - 1
  IN  [j \in 1..Cardinality(kept) |-> prev[at(j)]]

\* prev.filter((_, index) => index !== indexToRemove), on 1-based positions
RemoveIndex(prev, indexToRemove) ==
  LET kept == {i \in 1..Len(prev) : i # indexToRemove}
      \* the position in prev of the j-th kept entry
      at(j) == CHOOSE i \in kept : Cardinality({k \in kept : k < i}) = j - 1
  IN  [j \in 1..Cardinality(kept) |-> prev[at(j)]]

\* handleRemoveFile: the Remove button of one queue entry (full and sample)
handleRemoveFile(indexToRemove) ==
  /\ HasTabs
  /\ FormMounted
  /\ indexToRemove \in 1..Len(files)
  /\ files' = RemoveIndex(files, indexToRemove)
  /\ UNCHANGED <<variant, activeTab, message, inputValue, uploading, uploadReqs,
                 compressionVars, listVars, downloadVars, deleteVars>>

\* the resolution preferring any free text, whatever the selection
resolvedCompression_PrefersCustom ==
  IF customCompression # ""
  THEN customCompression
  ELSE compressionType

\* resolvedCompression of handleUpload (part_000 39-42)
resolvedCompression ==
  IF compressionType = "other" /\ customCompression # ""
  THEN customCompression
  ELSE compressionType

\* the FormData with the files appended last to first
formData_ReversedAudio ==
  LET audio == [i \in 1..Len(files) |-> <<"audio", files[Len(files) + 1 - i]>>]
  IN  IF HasCompression
      THEN audio
           \o <<<<"compressed", IF isCompressed THEN "true" ELSE "false">>>>
           \o (IF isCompressed /\ resolvedCompression # ""
               THEN <<<<"compression_type", resolvedCompression>>>>
               ELSE <<>>)
      ELSE audio

\* the FormData handleUpload builds: a sequence of <<name, value>> entries
formData ==
  LET audio == [i \in 1..Len(files) |-> <<"audio", files[i]>>]
  IN  IF HasCompression
      THEN audio
           \o <<<<"compressed", IF isCompressed THEN "true" ELSE "false">>>>
           \o (IF isCompressed /\ resolvedCompression # ""
               THEN <<<<"compression_type", resolvedCompression>>>>
               ELSE <<>>)
      ELSE audio

\* handleUpload without its empty-queue return
handleUpload_NoEmptyCheck ==
  /\ uploading' = TRUE
  /\ uploadReqs' = Append(uploadReqs, formData)
  /\ UNCHANGED <<variant, activeTab, message, files, inputValue,
                 compressionVars, listVars, downloadVars, deleteVars>>

\* handleUpload up to its await: the empty-queue return, or the request is sent
handleUpload ==
  IF Len(files) = 0
  THEN /\ message' = "Please choose at least one audio file."
       /\ UNCHANGED <<variant, activeTab, uploadVars, compressionVars, listVars,
                      downloadVars, deleteVars>>
  ELSE /\ uploading' = TRUE
       /\ uploadReqs' = Append(uploadReqs, formData)
       /\ UNCHANGED <<variant, activeTab, message, files, inputValue,
                      compressionVars, listVars, downloadVars, deleteVars>>

\* the submit button's guard without its uploading term
SubmitDisabled_NoUploading ==
  \/ Len(files) = 0
  \/ /\ HasCompression
     /\ isCompressed
     /\ \/ compressionType = ""
        \/ compressionType = "other" /\ Trim(customCompression) = ""

\* the submit button's guard testing the free text without trim()
SubmitDisabled_NoTrim ==
  \/ uploading
  \/ Len(files) = 0
  \/ /\ HasCompression
     /\ isCompressed
     /\ \/ compressionType = ""
        \/ compressionType = "other" /\ customCompression = ""

\* the disabled attribute of the submit button
SubmitDisabled ==
  \/ uploading
  \/ Len(files) = 0
  \/ /\ HasCompression
     /\ isCompressed
     /\ \/ compressionType = ""
        \/ compressionType = "other" /\ Trim(customCompression) = ""

\* a click on the enabled submit button submits the form
SubmitClick ==
  /\ FormMounted
  /\ ~SubmitDisabled
  /\ handleUpload

\* a submit event dispatched on the form itself (form.requestSubmit(), a test
\* harness): it reaches handleUpload whatever the button's state
SubmitEvent ==
  /\ FormMounted
  /\ Len(uploadReqs) < MaxInFlight
  /\ handleUpload

\* s without its k-th element: the request that settled leaves the network
Without(s, k) == [j \in 1..(Len(s) - 1) |-> IF j < k THEN s[j] ELSE s[j + 1]]

\* fileInputRef.current.value = '' when the input is mounted
ResetInput == inputValue' = (IF FormMounted THEN <<>> ELSE inputValue)

\* the success path without the reset of the native input
handleUploadResolved_KeepInput(k, dataMessage) ==
  /\ k \in 1..Len(uploadReqs)
  /\ uploadReqs' = Without(uploadReqs, k)
  /\ message' = OrElse(dataMessage, "Upload complete!")
  /\ files' = <<>>
  /\ inputValue' = inputValue
  /\ uploading' = FALSE
  /\ IF HasCompression
     THEN /\ compressionType' = ""
          /\ customCompression' = ""
          /\ isCompressed' = FALSE
     ELSE UNCHANGED compressionVars
  /\ UNCHANGED <<variant, activeTab, listVars, downloadVars, deleteVars>>

\* handleUpload after its await, the request resolved with JSON data
handleUploadResolved(k, dataMessage) ==
  /\ k \in 1..Len(uploadReqs)
  /\ uploadReqs' = Without(uploadReqs, k)
  /\ message' = OrElse(dataMessage, "Upload complete!")
  /\ files' = <<>>
  /\ ResetInput
  /\ uploading' = FALSE
  /\ IF HasCompression
     THEN /\ compressionType' = ""
          /\ customCompression' = ""
          /\ isCompressed' = FALSE
     ELSE UNCHANGED compressionVars
  /\ UNCHANGED <<variant, activeTab, listVars, downloadVars, deleteVars>>

\* the failure path keeping the queue in every variant
handleUploadRejected_KeepsQueue(k) ==
  /\ k \in 1..Len(uploadReqs)
  /\ uploadReqs' = Without(uploadReqs, k)
  /\ message' = "Upload failed."
  /\ uploading' = FALSE
  /\ UNCHANGED <<files, inputValue>>
  /\ UNCHANGED <<variant, activeTab, compressionVars, listVars, downloadVars,
                 deleteVars>>

\* handleUpload after its await, fetch or res.json() threw
handleUploadRejected(k) ==
  /\ k \in 1..Len(uploadReqs)
  /\ uploadReqs' = Without(uploadReqs, k)
  /\ message' = "Upload failed."
  /\ uploading' = FALSE
  /\ IF HasCompression
     THEN UNCHANGED <<files, inputValue>>
     ELSE /\ files' = <<>>
          /\ ResetInput
  /\ UNCHANGED <<variant, activeTab, compressionVars, listVars, downloadVars,
                 deleteVars>>

\* setActiveTab: a tab button.  Leaving the upload tab unmounts the form, and
\* the file input mounted on return is a new, empty control.
setActiveTab(tab) ==
  /\ HasTabs
  /\ tab # activeTab
  /\ activeTab' = tab
  /\ inputValue' = <<>>
  /\ UNCHANGED <<variant, message, files, uploading, uploadReqs, compressionVars,
                 listVars, downloadVars, deleteVars>>

\* ---- the compression controls (part_000) ----

\* the "Not compressed" radio switching the toggle only
setNotCompressed_KeepsValues ==
  /\ HasCompression
  /\ isCompressed
  /\ isCompressed' = FALSE
  /\ UNCHANGED <<compressionType, customCompression>>
  /\ UNCHANGED <<variant, activeTab, message, uploadVars, listVars,
                 downloadVars, deleteVars>>

\* the "Not compressed" radio
setNotCompressed ==
  /\ HasCompression
  /\ isCompressed
  /\ isCompressed' = FALSE
  /\ compressionType' = ""
  /\ customCompression' = ""
  /\ UNCHANGED <<variant, activeTab, message, uploadVars, listVars,
                 downloadVars, deleteVars>>

\* the "Compressed" radio
setCompressed ==
  /\ HasCompression
  /\ ~isCompressed
  /\ isCompressed' = TRUE
  /\ UNCHANGED <<variant, activeTab, message, uploadVars, compressionType,
                 customCompression, listVars, downloadVars, deleteVars>>

\* the compression select, rendered when isCompressed
setCompressionType(value) ==
  /\ HasCompression
  /\ isCompressed
  /\ value # compressionType
  /\ compressionType' = value
  /\ UNCHANGED <<variant, activeTab, message, uploadVars, isCompressed,
                 customCompression, listVars, downloadVars, deleteVars>>

\* the free-text input, rendered when isCompressed and 'other' is selected
setCustomCompression(value) ==
  /\ HasCompression
  /\ isCompressed
  /\ compressionType = "other"
  /\ value # customCompression
  /\ customCompression' = value
  /\ UNCHANGED <<variant, activeTab, message, uploadVars, isCompressed,
                 compressionType, listVars, downloadVars, deleteVars>>

\* ---- the sample browser ----

\* the elements of a sequence
Range(s) == {s[i] : i \in 1..Len(s)}

\* the replies of a list endpoint: data.success, data.songs (left out when
\* hasSongs is false) and data.message.  A reply whose success flag is false is
\* read no further, so one stands for all of them.
ListReplies ==
  [success : {TRUE}, hasSongs : {TRUE}, songs : SongLists, message : ListMessages]
  \cup [success : {TRUE}, hasSongs : {FALSE}, songs : {<<>>}, message : ListMessages]
  \cup [success : {FALSE}, hasSongs : {FALSE}, songs : {<<>>}, message : {Undefined}]

\* the load button's handler leaving the old status message in place
fetchSampleSongs_KeepsMessage ==
  /\ SamplesMounted
  /\ ~loadingSongs
  /\ loadingSongs' = TRUE
  /\ listReqs' = Append(listReqs, [deletedSince |-> {}])
  /\ UNCHANGED <<variant, activeTab, message, uploadVars, compressionVars, songs,
                 downloadVars, deleteVars>>

\* the load button without its disabled attribute
fetchSampleSongs_NoLoadingGuard ==
  /\ SamplesMounted
  /\ loadingSongs' = TRUE
  /\ message' = ""
  /\ listReqs' = Append(listReqs, [deletedSince |-> {}])
  /\ UNCHANGED <<variant, activeTab, uploadVars, compressionVars, songs,
                 downloadVars, deleteVars>>

\* fetchSampleSongs up to its await: the load button, disabled while loading
fetchSampleSongs ==
  /\ SamplesMounted
  /\ ~loadingSongs
  /\ loadingSongs' = TRUE
  /\ message' = ""
  /\ listReqs' = Append(listReqs, [deletedSince |-> {}])
  /\ UNCHANGED <<variant, activeTab, uploadVars, compressionVars, songs,
                 downloadVars, deleteVars>>

\* the list completion dropping the snapshot when success is false
fetchSampleSongsResolved_ClearsOnFailure(k, data) ==
  /\ k \in 1..Len(listReqs)
  /\ listReqs' = Without(listReqs, k)
  /\ IF data.success
     THEN /\ songs' = (IF data.hasSongs THEN data.songs ELSE <<>>)
          /\ message' = OrElse(data.message, "Sample songs loaded!")
     ELSE /\ message' = "Failed to load sample songs."
          /\ songs' = <<>>
  /\ loadingSongs' = FALSE
  /\ UNCHANGED <<variant, activeTab, uploadVars, compressionVars, downloadVars,
                 deleteVars>>

\* the list completion appending the reply to the previous snapshot
fetchSampleSongsResolved_KeepsPrevious(k, data) ==
  /\ k \in 1..Len(listReqs)
  /\ listReqs' = Without(listReqs, k)
  /\ IF data.success
     THEN /\ songs' = songs \o (IF data.hasSongs THEN data.songs ELSE <<>>)
          /\ message' = OrElse(data.message, "Sample songs loaded!")
     ELSE /\ message' = "Failed to load sample songs."
          /\ UNCHANGED songs
  /\ loadingSongs' = FALSE
  /\ UNCHANGED <<variant, activeTab, uploadVars, compressionVars, downloadVars,
                 deleteVars>>

\* fetchSampleSongs after its await, the request resolved with JSON data
fetchSampleSongsResolved(k, data) ==
  /\ k \in 1..Len(listReqs)
  /\ listReqs' = Without(listReqs, k)
  /\ IF data.success
     THEN /\ songs' = (IF data.hasSongs THEN data.songs ELSE <<>>)
          /\ message' = OrElse(data.message, "Sample songs loaded!")
     ELSE /\ message' = "Failed to load sample songs."
          /\ UNCHANGED songs
  /\ loadingSongs' = FALSE
  /\ UNCHANGED <<variant, activeTab, uploadVars, compressionVars, downloadVars,
                 deleteVars>>

\* the list failure path without its finally block
fetchSampleSongsRejected_KeepsLoading(k) ==
  /\ k \in 1..Len(listReqs)
  /\ listReqs' = Without(listReqs, k)
  /\ message' = "Failed to load sample songs."
  /\ UNCHANGED loadingSongs
  /\ UNCHANGED <<variant, activeTab, uploadVars, compressionVars, songs,
                 downloadVars, deleteVars>>

\* fetchSampleSongs after its await, fetch or res.json() threw
fetchSampleSongsRejected(k) ==
  /\ k \in 1..Len(listReqs)
  /\ listReqs' = Without(listReqs, k)
  /\ message' = "Failed to load sample songs."
  /\ loadingSongs' = FALSE
  /\ UNCHANGED <<variant, activeTab, uploadVars, compressionVars, songs,
                 downloadVars, deleteVars>>

\* `${song.artist} - ${song.song_name}` of the song with this id (App.tsx 330)
displayName(id) == "Artist - " \o id

\* the songName argument of downloadSong: App.tsx 323 adds the format, part_001
\* passes the storage key
downloadName(id) == IF variant = "full" THEN displayName(id) \o ".mp3" ELSE id

\* the buttons' guard without the downloadingSongs term
ItemDisabled_NoDownloadCheck(id) ==
  HasDelete /\ id \in deletingSongs

\* the buttons' guard without the deletingSongs term
ItemDisabled_NoDeleteCheck(id) ==
  id \in downloadingSongs

\* the disabled attribute of a song's buttons (App.tsx 324 and 331, part_001 253)
ItemDisabled(id) ==
  \/ id \in downloadingSongs
  \/ HasDelete /\ id \in deletingSongs

\* how a download request can settle.  full: the body arrives non-empty, the
\* status is not ok, the body is empty, or fetch throws.  sample: a presigned
\* url arrives, the reply carries none, or fetch / res.json() throws.
DownloadOutcomes ==
  IF variant = "full"
  THEN {"ok", "http_error", "empty_blob", "threw"}
  ELSE {"ok", "no_link", "threw"}

\* the try block skipping the check of the payload's size
downloadSucceeds_NoEmptyCheck(outcome) == outcome \in {"ok", "empty_blob"}

\* the try block runs to link.click(): no throw before it
downloadSucceeds(outcome) == outcome = "ok"

\* the catch block of downloadSong writing an empty text
downloadMessage_EmptyOnThrow(id, outcome) ==
  IF variant = "full"
  THEN IF downloadSucceeds(outcome)
       THEN "Downloaded " \o downloadName(id) \o " successfully!"
       ELSE ""
  ELSE IF downloadSucceeds(outcome)
       THEN "Downloading " \o downloadName(id) \o "..."
       ELSE CASE outcome = "no_link" -> "Failed to get download link."
              [] OTHER -> ""

\* the message downloadSong sets for an outcome
downloadMessage(id, outcome) ==
  IF variant = "full"
  THEN IF downloadSucceeds(outcome)
       THEN "Downloaded " \o downloadName(id) \o " successfully!"
       ELSE CASE outcome = "http_error" -> "Download failed: HTTP error! status: 500"
              [] outcome = "empty_blob" -> "Download failed: Downloaded file is empty"
              [] OTHER -> "Download failed: Failed to fetch"
  ELSE IF downloadSucceeds(outcome)
       THEN "Downloading " \o downloadName(id) \o "..."
       ELSE CASE outcome = "no_link" -> "Failed to get download link."
              [] OTHER -> "Download failed."

\* downloadSong up to its await: the Download button of a listed song
downloadSong(songId) ==
  /\ SamplesMounted
  /\ songId \in Range(songs)
  /\ ~ItemDisabled(songId)
  /\ downloadingSongs' = downloadingSongs \cup {songId}
  /\ dlReqs' = [dlReqs EXCEPT ![songId] = @ + 1]
  /\ UNCHANGED <<variant, activeTab, message, uploadVars, compressionVars,
                 listVars, deleteVars, saved>>

\* the download completion replacing the busy-set by an empty one
downloadSongSettled_ClearsAll(songId, outcome) ==
  /\ dlReqs[songId] > 0
  /\ outcome \in DownloadOutcomes
  /\ dlReqs' = [dlReqs EXCEPT ![songId] = @ - 1]
  /\ message' = downloadMessage(songId, outcome)
  /\ saved' = (saved \/ downloadSucceeds(outcome))
  /\ downloadingSongs' = {}
  /\ UNCHANGED <<variant, activeTab, uploadVars, compressionVars, listVars,
                 deleteVars>>

\* downloadSong after its await: try or catch, then finally
downloadSongSettled(songId, outcome) ==
  /\ dlReqs[songId] > 0
  /\ outcome \in DownloadOutcomes
  /\ dlReqs' = [dlReqs EXCEPT ![songId] = @ - 1]
  /\ message' = downloadMessage(songId, outcome)
  /\ saved' = (saved \/ downloadSucceeds(outcome))
  /\ downloadingSongs' = downloadingSongs \ {songId}
  /\ UNCHANGED <<variant, activeTab, uploadVars, compressionVars, listVars,
                 deleteVars>>

\* the replies of the delete endpoint: the two tier flags are read when success
\* is true, the message when it is false
DeleteReplies ==
  [success : {TRUE}, deletedFromDatabase : BOOLEAN, deletedFromS3 : BOOLEAN,
   message : {Undefined}]
  \cup [success : {FALSE}, deletedFromDatabase : {FALSE}, deletedFromS3 : {FALSE},
        message : DeleteMessages]

\* the status text of a successful delete (the source marks the two tiers with
\* a check or a cross emoji, written here as [x] and [ ])
deletedMessage(id, data) ==
  "\"" \o displayName(id) \o "\" deleted: "
  \o (IF data.deletedFromDatabase THEN "[x] Database" ELSE "[ ] Database")
  \o " | "
  \o (IF data.deletedFromS3 THEN "[x] Cloud Storage" ELSE "[ ] Cloud Storage")

\* deleteSong without its confirm() return
deleteSong_NoConfirm(songId, confirmed) ==
  /\ HasDelete
  /\ SamplesMounted
  /\ songId \in Range(songs)
  /\ ~ItemDisabled(songId)
  /\ deletingSongs' = deletingSongs \cup {songId}
  /\ delReqs' = [delReqs EXCEPT ![songId] = @ + 1]
  /\ UNCHANGED <<variant, activeTab, message, uploadVars, compressionVars,
                 listVars, downloadVars>>

\* deleteSong up to its await: the Delete button of a listed song, then confirm()
deleteSong(songId, confirmed) ==
  /\ HasDelete
  /\ SamplesMounted
  /\ songId \in Range(songs)
  /\ ~ItemDisabled(songId)
  /\ IF ~confirmed
     THEN UNCHANGED vars
     ELSE /\ deletingSongs' = deletingSongs \cup {songId}
          /\ delReqs' = [delReqs EXCEPT ![songId] = @ + 1]
          /\ UNCHANGED <<variant, activeTab, message, uploadVars, compressionVars,
                         listVars, downloadVars>>

\* prev.filter(song => song.id !== songId)
RECURSIVE RemoveSong(_, _)
RemoveSong(prev, songId) ==
  IF prev = <<>> THEN <<>>
  ELSE (IF Head(prev) # songId THEN <<Head(prev)>> ELSE <<>>)
       \o RemoveSong(Tail(prev), songId)

\* the delete completion dropping the song whatever the success flag
deleteSongResolved_RemovesOnFailure(songId, data) ==
  /\ delReqs[songId] > 0
  /\ delReqs' = [delReqs EXCEPT ![songId] = @ - 1]
  /\ songs' = RemoveSong(songs, songId)
  /\ listReqs' = [k \in 1..Len(listReqs) |->
                    [deletedSince |-> listReqs[k].deletedSince \cup {songId}]]
  /\ IF data.success
     THEN message' = deletedMessage(songId, data)
     ELSE message' = "Failed to delete \"" \o displayName(songId) \o "\". "
                     \o OrElse(data.message, "Unknown error.")
  /\ deletingSongs' = deletingSongs \ {songId}
  /\ UNCHANGED <<variant, activeTab, uploadVars, compressionVars, loadingSongs,
                 downloadVars>>

\* the delete completion replacing the busy-set by an empty one
deleteSongResolved_ClearsAll(songId, data) ==
  /\ delReqs[songId] > 0
  /\ delReqs' = [delReqs EXCEPT ![songId] = @ - 1]
  /\ IF data.success
     THEN /\ songs' = RemoveSong(songs, songId)
          /\ message' = deletedMessage(songId, data)
          /\ listReqs' = [k \in 1..Len(listReqs) |->
                            [deletedSince |-> listReqs[k].deletedSince \cup {songId}]]
     ELSE /\ message' = "Failed to delete \"" \o displayName(songId) \o "\". "
                        \o OrElse(data.message, "Unknown error.")
          /\ UNCHANGED <<songs, listReqs>>
  /\ deletingSongs' = {}
  /\ UNCHANGED <<variant, activeTab, uploadVars, compressionVars, loadingSongs,
                 downloadVars>>

\* deleteSong after its await, the request resolved with JSON data
deleteSongResolved(songId, data) ==
  /\ delReqs[songId] > 0
  /\ delReqs' = [delReqs EXCEPT ![songId] = @ - 1]
  /\ IF data.success
     THEN /\ songs' = RemoveSong(songs, songId)
          /\ message' = deletedMessage(songId, data)
          /\ listReqs' = [k \in 1..Len(listReqs) |->
                            [deletedSince |-> listReqs[k].deletedSince \cup {songId}]]
     ELSE /\ message' = "Failed to delete \"" \o displayName(songId) \o "\". "
                        \o OrElse(data.message, "Unknown error.")
          /\ UNCHANGED <<songs, listReqs>>
  /\ deletingSongs' = deletingSongs \ {songId}
  /\ UNCHANGED <<variant, activeTab, uploadVars, compressionVars, loadingSongs,
                 downloadVars>>

\* the delete failure path without its finally block
deleteSongRejected_KeepsBusy(songId) ==
  /\ delReqs[songId] > 0
  /\ delReqs' = [delReqs EXCEPT ![songId] = @ - 1]
  /\ message' = "Failed to delete \"" \o displayName(songId) \o "\". Please try again."
  /\ UNCHANGED deletingSongs
  /\ UNCHANGED <<variant, activeTab, uploadVars, compressionVars, listVars,
                 downloadVars>>

\* deleteSong after its await, fetch or res.json() threw
deleteSongRejected(songId) ==
  /\ delReqs[songId] > 0
  /\ delReqs' = [delReqs EXCEPT ![songId] = @ - 1]
  /\ message' = "Failed to delete \"" \o displayName(songId) \o "\". Please try again."
  /\ deletingSongs' = deletingSongs \ {songId}
  /\ UNCHANGED <<variant, activeTab, uploadVars, compressionVars, listVars,
                 downloadVars>>

\* ---- the specifications ----

\* the events of the rendered page and the settling of its requests
Next ==
  \/ \E selectedFiles \in Selections : handleFileChange(selectedFiles)
  \/ \E indexToRemove \in 1..MaxFiles : handleRemoveFile(indexToRemove)
  \/ SubmitClick
  \/ \E k \in 1..MaxInFlight, m \in UploadMessages : handleUploadResolved(k, m)
  \/ \E k \in 1..MaxInFlight : handleUploadRejected(k)
  \/ \E tab \in {"upload", "samples"} : setActiveTab(tab)
  \/ setNotCompressed
  \/ setCompressed
  \/ \E value \in compressionOptions \cup {""} : setCompressionType(value)
  \/ \E value \in CustomTexts : setCustomCompression(value)
  \/ fetchSampleSongs
  \/ \E k \in 1..MaxInFlight, data \in ListReplies : fetchSampleSongsResolved(k, data)
  \/ \E k \in 1..MaxInFlight : fetchSampleSongsRejected(k)
  \/ \E songId \in SongIds : downloadSong(songId)
  \/ \E songId \in SongIds, outcome \in {"ok", "http_error", "empty_blob", "no_link", "threw"} :
       downloadSongSettled(songId, outcome)
  \/ \E songId \in SongIds, confirmed \in BOOLEAN : deleteSong(songId, confirmed)
  \/ \E songId \in SongIds, data \in DeleteReplies : deleteSongResolved(songId, data)
  \/ \E songId \in SongIds : deleteSongRejected(songId)

Spec == Init /\ [][Next]_vars

\* ---- handleRemoveFile on its own ----

\* the queues of MaxQueue distinct files
FullQueues ==
  {q \in [1..MaxQueue -> {FileName(i) : i \in 1..(MaxQueue + 1)}] :
     \A i, j \in 1..MaxQueue : i # j => q[i] # q[j]}

\* the page of a variant that has Remove buttons, a full queue selected; the
\* file input shows that selection, or nothing after a round trip through the
\* samples tab
InitQueue ==
  /\ variant \in {"full", "sample"}
  /\ activeTab = "upload"
  /\ files \in FullQueues
  /\ inputValue \in {files, <<>>}
  /\ message = ""
  /\ uploading = FALSE
  /\ isCompressed = FALSE
  /\ compressionType = ""
  /\ customCompression = ""
  /\ uploadReqs = <<>>
  /\ songs = <<>>
  /\ loadingSongs = FALSE
  /\ listReqs = <<>>
  /\ downloadingSongs = {}
  /\ dlReqs = [id \in SongIds |-> 0]
  /\ saved = FALSE
  /\ deletingSongs = {}
  /\ delReqs = [id \in SongIds |-> 0]

\* handleRemoveFile called with any index, an entry's or not
handleRemoveFileCall(indexToRemove) ==
  /\ files' = RemoveIndex(files, indexToRemove)
  /\ UNCHANGED <<variant, activeTab, message, inputValue, uploading, uploadReqs,
                 compressionVars, listVars, downloadVars, deleteVars>>

NextQueue ==
  \E indexToRemove \in 0..(MaxQueue + 1) : handleRemoveFileCall(indexToRemove)

SpecQueue == InitQueue /\ [][NextQueue]_vars

\* the same page when submit events may also reach the form directly
NextDirect ==
  \/ Next
  \/ SubmitEvent

SpecDirect == Init /\ [][NextDirect]_vars

\* ---- the properties ----

\* C1: in every variant, a submit that reaches handleUpload with an empty queue
\* issues no upload request, sets the status message to 'Please choose at least
\* one audio file.' and leaves the queue, the uploading flag and all other
\* state unchanged.
C1_EmptySubmitRejected ==
  [][ (SubmitEvent /\ Len(files) = 0) =>
        /\ message' = "Please choose at least one audio file."
        /\ uploadReqs' = uploadReqs
        /\ files' = files
        /\ uploading' = uploading
        /\ UNCHANGED <<variant, activeTab, inputValue, compressionVars, listVars,
                       downloadVars, deleteVars>> ]_vars

\* an empty-queue submit has been answered
C1_Witness ==
  /\ message = "Please choose at least one audio file."
  /\ files = <<>>
  /\ uploadReqs = <<>>
  /\ ~uploading

\* C2: in every variant at most one upload request is outstanding, and the
\* uploading flag is true exactly while one is; so no second upload starts
\* while the flag is true.
C2_AtMostOneUpload ==
  /\ Len(uploadReqs) <= 1
  /\ uploading <=> Len(uploadReqs) = 1

\* an upload is outstanding while the queue still holds files to submit
C2_Witness ==
  /\ uploading
  /\ Len(uploadReqs) = 1
  /\ Len(files) > 0
  /\ FormMounted

\* compression tagging is on and no descriptor is resolved: nothing selected,
\* or 'other' with a blank or whitespace-only free text
C3_NoDescriptor ==
  /\ HasCompression
  /\ isCompressed
  /\ \/ compressionType = ""
     \/ compressionType = "other" /\ customCompression \in {"", "  "}

\* C3: in the compression variant, while tagging is on and no descriptor is
\* resolved, no step issues an upload request.
C3_NoUploadWithoutDescriptor ==
  [][ C3_NoDescriptor => Len(uploadReqs') <= Len(uploadReqs) ]_vars

\* only the whitespace-only free text keeps a filled, idle form from submitting
C3_Witness ==
  /\ C3_NoDescriptor
  /\ compressionType = "other"
  /\ customCompression = "  "
  /\ Len(files) > 0
  /\ ~uploading

\* what a successful upload leaves behind, but for the status message
C4_Cleared ==
  /\ files' = <<>>
  /\ inputValue' = <<>>
  /\ HasCompression =>
       (~isCompressed' /\ compressionType' = "" /\ customCompression' = "")

\* C4 as stated: after a successful upload the queue is empty, the file input
\* is cleared, the descriptor is reset, and the status message is the reply's
\* message field, or 'Upload complete!' when the reply has none.
C4_Original ==
  [][ \A k \in 1..MaxInFlight, m \in UploadMessages :
        handleUploadResolved(k, m) =>
          /\ C4_Cleared
          /\ message' = (IF m = Undefined THEN "Upload complete!" ELSE m) ]_vars

\* C4 amended: the same, the status message being 'Upload complete!' also when
\* the reply's message field is the empty string.
C4_SuccessClearsForm ==
  [][ \A k \in 1..MaxInFlight, m \in UploadMessages :
        handleUploadResolved(k, m) =>
          /\ C4_Cleared
          /\ message' = (IF m \in {Undefined, ""} THEN "Upload complete!" ELSE m) ]_vars

\* a successful upload has delivered the backend's message
C4_Witness ==
  /\ message = "3 files received"
  /\ files = <<>>
  /\ inputValue = <<>>
  /\ ~uploading

\* C5 as stated: in every variant the queue is empty after an upload request
\* completed, whether it succeeded or failed.
C5_Original ==
  [][ \A k \in 1..MaxInFlight :
        (handleUploadRejected(k) \/ \E m \in UploadMessages : handleUploadResolved(k, m))
          => files' = <<>> ]_vars

\* C5 amended: the queue is empty after a successful upload in every variant
\* and after a failed one in the full and sample variants; the compression
\* variant keeps the queue as it is when the upload fails.
C5_QueueAfterCompletion ==
  [][ \A k \in 1..MaxInFlight :
        /\ (\E m \in UploadMessages : handleUploadResolved(k, m)) => files' = <<>>
        /\ handleUploadRejected(k) =>
             files' = (IF variant = "compression" THEN files ELSE <<>>) ]_vars

\* a failed upload of the compression variant has left its queue in place
C5_Witness ==
  /\ variant = "compression"
  /\ message = "Upload failed."
  /\ ~uploading
  /\ Len(files) > 0

\* C6: a successful delete removes exactly that item from the snapshot, the
\* others kept in order, and an item comes (back) into the snapshot only
\* through a list fetch that was requested after its deletion.
C6_Original ==
  [][ /\ \A id \in SongIds, data \in DeleteReplies :
           (data.success /\ deleteSongResolved(id, data)) =>
             /\ Range(songs') = Range(songs) \ {id}
             /\ \A i, j \in 1..Len(songs') :
                  i < j => \E a, b \in 1..Len(songs) :
                             a < b /\ songs[a] = songs'[i] /\ songs[b] = songs'[j]
      /\ \A id \in SongIds :
           (id \notin Range(songs) /\ id \in Range(songs')) =>
             \E k \in 1..Len(listReqs), data \in ListReplies :
               /\ fetchSampleSongsResolved(k, data)
               /\ id \notin listReqs[k].deletedSince ]_vars

\* C7: no two download requests for the same item are outstanding.
C7_OneDownloadPerItem ==
  \A id \in SongIds : dlReqs[id] <= 1

\* a listed item is mid-download with its button on screen
C7_Witness ==
  \E id \in SongIds :
    /\ dlReqs[id] = 1
    /\ id \in Range(songs)
    /\ SamplesMounted

\* C8: downloads of distinct items are outstanding together and each can
\* complete whatever the other does; a step that starts or completes the
\* download of an item adds or removes that identifier alone in the download
\* busy-set, and no other step changes the busy-set.
C8_DownloadsIndependent ==
  /\ [](\A id \in SongIds :
          dlReqs[id] > 0 => ENABLED (\E o \in DownloadOutcomes : downloadSongSettled(id, o)))
  /\ [][ /\ \A id \in SongIds :
              /\ dlReqs'[id] > dlReqs[id] => downloadingSongs' = downloadingSongs \cup {id}
              /\ dlReqs'[id] < dlReqs[id] => downloadingSongs' = downloadingSongs \ {id}
         /\ dlReqs' = dlReqs => downloadingSongs' = downloadingSongs ]_vars

\* two distinct items are mid-download at once
C8_Witness ==
  \E a, b \in SongIds :
    /\ a # b
    /\ dlReqs[a] = 1 /\ dlReqs[b] = 1
    /\ {a, b} \subseteq downloadingSongs

\* C9: an item is in the download (delete) busy-set exactly while a download
\* (delete) request for it is outstanding, on whatever path the request
\* completed; with no request outstanding the item's controls are enabled.
C9_BusyWhileOutstanding ==
  \A id \in SongIds :
    /\ id \in downloadingSongs <=> dlReqs[id] > 0
    /\ id \in deletingSongs <=> delReqs[id] > 0
    /\ (dlReqs[id] = 0 /\ delReqs[id] = 0) => ~ItemDisabled(id)

\* a delete has failed with a thrown error and the item's controls are back
C9_Witness ==
  \E id \in SongIds :
    /\ message = "Failed to delete \"" \o displayName(id) \o "\". Please try again."
    /\ id \in Range(songs)
    /\ delReqs[id] = 0
    /\ ~ItemDisabled(id)

\* C10: a list fetch that fails, by a thrown error or a reply whose success
\* flag is false, leaves the snapshot unchanged and sets the status message to
\* 'Failed to load sample songs.'.
C10_FailedFetchKeepsSnapshot ==
  [][ \A k \in 1..MaxInFlight :
        (\/ fetchSampleSongsRejected(k)
         \/ \E data \in ListReplies : ~data.success /\ fetchSampleSongsResolved(k, data))
          => /\ songs' = songs
             /\ message' = "Failed to load sample songs." ]_vars

\* a fetch has failed over a loaded snapshot
C10_Witness ==
  /\ message = "Failed to load sample songs."
  /\ Len(songs) > 0
  /\ ~loadingSongs

\* C11: the loading flag is true exactly while a list request is outstanding:
\* set before the request is issued, cleared when it completes on any path.
C11_LoadingWhileOutstanding ==
  loadingSongs <=> Len(listReqs) > 0

\* a list request is outstanding after an earlier one failed
C11_Witness ==
  /\ loadingSongs
  /\ Len(listReqs) = 1
  /\ Len(songs) > 0

\* C12: a delete request that fails, by a reply whose success flag is false or
\* by a thrown error, leaves the snapshot unchanged and sets the status message
\* to a failure text for that song: with the backend's message when the reply
\* carries a non-empty one, with a generic fallback otherwise.
C12_FailedDeleteKeepsSnapshot ==
  [][ \A id \in SongIds :
        /\ \A data \in DeleteReplies :
             (~data.success /\ deleteSongResolved(id, data)) =>
               /\ songs' = songs
               /\ message' = "Failed to delete \"Artist - " \o id \o "\". "
                             \o (IF data.message \in {Undefined, ""}
                                 THEN "Unknown error."
                                 ELSE data.message)
        /\ deleteSongRejected(id) =>
             /\ songs' = songs
             /\ message' = "Failed to delete \"Artist - " \o id
                           \o "\". Please try again." ]_vars

\* the backend has refused a delete with its reason and the song is still listed
C12_Witness ==
  \E id \in SongIds :
    /\ message = "Failed to delete \"Artist - " \o id \o "\". Song not found"
    /\ id \in Range(songs)
    /\ delReqs[id] = 0

\* C13: removing the file at an index of a queue of N files yields a queue of
\* N-1 files that omits that entry alone and keeps the others in their order;
\* an index outside the queue leaves the queue unchanged.
C13_RemoveByIndex ==
  [][ \A index \in 0..(MaxQueue + 1) :
        handleRemoveFileCall(index) =>
          IF index \in 1..Len(files)
          THEN /\ Len(files') = Len(files) - 1
               /\ \A j \in 1..Len(files') :
                    files'[j] = files[IF j < index THEN j ELSE j + 1]
          ELSE files' = files ]_vars

\* two removals have left one file of a full queue
C13_Witness ==
  /\ Len(files) = MaxQueue - 2
  /\ Len(files) > 0

\* C14: a delete request is issued only by a deleteSong whose confirmation the
\* user accepted; when the user declines, no request is sent and the snapshot,
\* the delete busy-set and the status message stay as they are.
C14_DeleteNeedsConfirmation ==
  [][ /\ \A id \in SongIds :
           deleteSong(id, FALSE) =>
             /\ delReqs' = delReqs
             /\ songs' = songs
             /\ deletingSongs' = deletingSongs
             /\ message' = message
      /\ \A id \in SongIds :
           delReqs'[id] > delReqs[id] => deleteSong(id, TRUE) ]_vars

\* a Delete button is enabled, with a status message a declined confirmation
\* would have to leave alone, while another delete went ahead
C14_Witness ==
  \E id, other \in SongIds :
    /\ HasDelete
    /\ SamplesMounted
    /\ id \in Range(songs)
    /\ ~ItemDisabled(id)
    /\ message # ""
    /\ delReqs[other] = 1

\* the values of the entries of a FormData that bear a name, in their order
C15_Values(request, name) ==
  LET Named(e) == e[1] = name
      entries == SelectSeq(request, Named)
  IN  [i \in 1..Len(entries) |-> entries[i][2]]

\* C15: a submission of a non-empty queue issues exactly one upload request,
\* whose 'audio' parts are the queued files in queue order; with compression
\* tagging off, or absent from the variant, it has no 'compression_type' field.
C15_RequestCarriesQueue ==
  [][ (SubmitClick /\ Len(files) > 0) =>
        /\ Len(uploadReqs') = Len(uploadReqs) + 1
        /\ \A k \in 1..Len(uploadReqs) : uploadReqs'[k] = uploadReqs[k]
        /\ LET request == uploadReqs'[Len(uploadReqs')]
           IN  /\ C15_Values(request, "audio") = files
               /\ ~(HasCompression /\ isCompressed) =>
                    C15_Values(request, "compression_type") = <<>> ]_vars

\* the compression variant has sent two files untagged
C15_Witness ==
  /\ HasCompression
  /\ Len(uploadReqs) = 1
  /\ C15_Values(uploadReqs[1], "audio") = <<"a.mp3", "b.wav">>
  /\ C15_Values(uploadReqs[1], "compressed") = <<"false">>
  /\ C15_Values(uploadReqs[1], "compression_type") = <<>>

\* C16: in the compression variant a request submitted with tagging on carries
\* compressed=true and one compression_type: the free text when the selection
\* is 'other' and the free text is not empty, the selection otherwise; a free
\* text left from an earlier 'other' selection stays out of the request.
C16_TaggedRequest ==
  [][ (SubmitClick /\ HasCompression /\ isCompressed) =>
        LET request == uploadReqs'[Len(uploadReqs')]
        IN  /\ Len(uploadReqs') = Len(uploadReqs) + 1
            /\ C15_Values(request, "compressed") = <<"true">>
            /\ C15_Values(request, "compression_type") =
                 << IF compressionType = "other" /\ customCompression # ""
                    THEN customCompression
                    ELSE compressionType >>
            /\ compressionType # "other" =>
                 C15_Values(request, "compression_type") = <<compressionType>> ]_vars

\* a request tagged mp3 is out while the free text of an earlier 'other' remains
C16_Witness ==
  /\ HasCompression
  /\ Len(uploadReqs) = 1
  /\ C15_Values(uploadReqs[1], "compressed") = <<"true">>
  /\ C15_Values(uploadReqs[1], "compression_type") = <<"mp3">>
  /\ isCompressed
  /\ compressionType = "mp3"
  /\ customCompression = "custom Dolby mix"

\* C17: in the compression variant, whenever compression tagging is off the
\* enumerated selection and the free text are both empty.
C17_OffMeansEmpty ==
  (HasCompression /\ ~isCompressed) =>
    (compressionType = "" /\ customCompression = "")

\* tagging was switched off while a request tagged with a free text is out
C17_Witness ==
  /\ HasCompression
  /\ ~isCompressed
  /\ compressionType = ""
  /\ customCompression = ""
  /\ Len(uploadReqs) = 1
  /\ C15_Values(uploadReqs[1], "compression_type") = <<"custom Dolby mix">>

\* C18: in the streaming-download variant a download whose body has zero
\* length ends as a failure: nothing is handed to the browser, the message
\* is the empty-payload text, which is neither the success text nor the text
\* of a network or HTTP error, and the item leaves the busy-set.
C18_EmptyPayloadFails ==
  [][\A id \in SongIds :
       (variant = "full" /\ downloadSongSettled(id, "empty_blob")) =>
         /\ saved' = saved
         /\ message' = "Download failed: Downloaded file is empty"
         /\ message' # "Downloaded " \o downloadName(id) \o " successfully!"
         /\ message' # downloadMessage(id, "http_error")
         /\ message' # downloadMessage(id, "threw")
         /\ id \notin downloadingSongs']_vars

C18_Witness ==
  /\ variant = "full"
  /\ message = "Download failed: Downloaded file is empty"
  /\ ~saved
  /\ downloadingSongs = {}
  /\ \A id \in SongIds : dlReqs[id] = 0
  /\ Len(songs) > 0

\* the texts the success paths write, for the replies of the model
C19_SuccessTexts ==
  {"Upload complete!", "Sample songs loaded!"}
  \cup (UploadMessages \ {Undefined, ""})
  \cup (ListMessages \ {Undefined, ""})
  \cup {"Downloaded Artist - " \o id \o ".mp3 successfully!" : id \in SongIds}
  \cup {"Downloading " \o id \o "..." : id \in SongIds}
  \cup {deletedMessage(id, data) : id \in SongIds,
                                   data \in {d \in DeleteReplies : d.success}}

\* the replies that report a failure
C19_FailedLists == {d \in ListReplies : ~d.success}

C19_FailedDeletes == {d \in DeleteReplies : ~d.success}

\* the texts the failure paths write
C19_FailureTexts ==
  {"Please choose at least one audio file.",
   "Upload failed.",
   "Failed to load sample songs.",
   "Download failed: HTTP error! status: 500",
   "Download failed: Downloaded file is empty",
   "Download failed: Failed to fetch",
   "Failed to get download link.",
   "Download failed."}
  \cup {"Failed to delete \"Artist - " \o id \o "\". " \o reason :
          id \in SongIds,
          reason \in {"Unknown error.", "Song not found", "Please try again."}}

\* a step through a failure path of one of the operations
C19_FailureStep ==
  \/ Len(files) = 0 /\ handleUpload
  \/ \E k \in 1..MaxInFlight : handleUploadRejected(k)
  \/ \E k \in 1..MaxInFlight :
       \E data \in C19_FailedLists :
         fetchSampleSongsResolved(k, data)
  \/ \E k \in 1..MaxInFlight : fetchSampleSongsRejected(k)
  \/ \E id \in SongIds : \E outcome \in DownloadOutcomes \ {"ok"} :
       downloadSongSettled(id, outcome)
  \/ \E id \in SongIds : \E data \in C19_FailedDeletes :
       deleteSongResolved(id, data)
  \/ \E id \in SongIds : deleteSongRejected(id)

\* C19: every failure path (the empty-queue validation, a failed upload, list
\* fetch, download or delete) leaves a non-empty status message that the
\* failing operation wrote and that is no success text (stated by
\* contraposition: no step that leaves another text is a failure step).
C19_FailuresReported ==
  [][(\/ message' = ""
       \/ message' \in C19_SuccessTexts
       \/ message' \notin C19_FailureTexts) => ~C19_FailureStep]_vars

\* a failed download has replaced the success text of an earlier one
C19_Witness ==
  /\ variant = "sample"
  /\ saved
  /\ message = "Failed to get download link."

\* a step of an event that writes no status message
C20_NoWriteStep ==
  \/ \E indexToRemove \in 1..MaxFiles : handleRemoveFile(indexToRemove)
  \/ SubmitClick
  \/ \E tab \in {"upload", "samples"} : setActiveTab(tab)
  \/ setNotCompressed
  \/ setCompressed
  \/ \E value \in compressionOptions \cup {""} : setCompressionType(value)
  \/ \E value \in CustomTexts : setCustomCompression(value)
  \/ \E songId \in SongIds : downloadSong(songId)
  \/ \E songId \in SongIds, confirmed \in BOOLEAN : deleteSong(songId, confirmed)

\* the text a download completion writes
C20_DownloadText(id, outcome) ==
  IF variant = "full"
  THEN CASE outcome = "ok" -> "Downloaded Artist - " \o id \o ".mp3 successfully!"
         [] outcome = "http_error" -> "Download failed: HTTP error! status: 500"
         [] outcome = "empty_blob" -> "Download failed: Downloaded file is empty"
         [] OTHER -> "Download failed: Failed to fetch"
  ELSE CASE outcome = "ok" -> "Downloading " \o id \o "..."
         [] outcome = "no_link" -> "Failed to get download link."
         [] OTHER -> "Download failed."

\* C20: the status message is always the text of the last write. Every
\* completion writes its own text whatever the message was and whatever else
\* is outstanding, a file selection and the start of a list fetch write the
\* empty string, and no other event changes the message.
C20_LastWriteWins ==
  [][/\ ((\E selectedFiles \in Selections : handleFileChange(selectedFiles))
          \/ fetchSampleSongs) => message' = ""
     /\ \A k \in 1..MaxInFlight :
          /\ \A m \in UploadMessages :
               handleUploadResolved(k, m) =>
                 message' = (IF m \in {Undefined, ""} THEN "Upload complete!" ELSE m)
          /\ handleUploadRejected(k) => message' = "Upload failed."
          /\ \A data \in ListReplies :
               fetchSampleSongsResolved(k, data) =>
                 message' = (IF ~data.success THEN "Failed to load sample songs."
                             ELSE IF data.message \in {Undefined, ""}
                                  THEN "Sample songs loaded!"
                                  ELSE data.message)
          /\ fetchSampleSongsRejected(k) => message' = "Failed to load sample songs."
     /\ \A id \in SongIds :
          /\ \A outcome \in DownloadOutcomes :
               downloadSongSettled(id, outcome) =>
                 message' = C20_DownloadText(id, outcome)
          /\ \A data \in DeleteReplies :
               deleteSongResolved(id, data) =>
                 message' = (IF data.success
                             THEN deletedMessage(id, data)
                             ELSE "Failed to delete \"Artist - " \o id \o "\". "
                                  \o (IF data.message \in {Undefined, ""}
                                      THEN "Unknown error."
                                      ELSE data.message))
          /\ deleteSongRejected(id) =>
               message' = "Failed to delete \"Artist - " \o id
                          \o "\". Please try again."
     /\ C20_NoWriteStep => message' = message]_vars

\* a list fetch started first and is still outstanding, a delete confirmed
\* after it has completed, and a download is in flight: the message is the
\* text of the delete, the last completion
C20_Witness ==
  /\ variant = "full"
  /\ Len(listReqs) = 1
  /\ listReqs[1].deletedSince = {SongId(1)}
  /\ dlReqs[SongId(2)] = 1
  /\ message = deletedMessage(SongId(1),
                  [success |-> TRUE, deletedFromDatabase |-> TRUE,
                   deletedFromS3 |-> FALSE, message |-> Undefined])

\* the snapshot without the entries of one song
C21_Others(list, id) ==
  LET keep(song) == song # id
  IN SelectSeq(list, keep)

\* C21: apart from the status message a completion changes only the slice
\* of its operation. An upload completion leaves the snapshot, the busy-sets
\* and the loading flag; a list completion leaves the queue, the uploading
\* flag and the busy-sets; a download completion leaves the queue, the
\* snapshot and every other item's busy flags; a delete completion changes
\* only its item's busy flag and its item's entry in the snapshot.
C21_CompletionsOwnSlice ==
  [][/\ \A k \in 1..MaxInFlight :
          /\ ((\E m \in UploadMessages : handleUploadResolved(k, m))
               \/ handleUploadRejected(k)) =>
                 UNCHANGED <<songs, loadingSongs, downloadingSongs, deletingSongs>>
          /\ ((\E data \in ListReplies : fetchSampleSongsResolved(k, data))
               \/ fetchSampleSongsRejected(k)) =>
                 UNCHANGED <<files, inputValue, uploading, compressionVars,
                             downloadingSongs, deletingSongs>>
     /\ \A id \in SongIds :
          /\ (\E outcome \in DownloadOutcomes : downloadSongSettled(id, outcome)) =>
               /\ UNCHANGED <<files, inputValue, uploading, compressionVars,
                              songs, loadingSongs, deletingSongs>>
               /\ downloadingSongs' \ {id} = downloadingSongs \ {id}
          /\ ((\E data \in DeleteReplies : deleteSongResolved(id, data))
               \/ deleteSongRejected(id)) =>
               /\ UNCHANGED <<files, inputValue, uploading, compressionVars,
                              loadingSongs, downloadingSongs>>
               /\ deletingSongs' \ {id} = deletingSongs \ {id}
               /\ C21_Others(songs', id) = C21_Others(songs, id)]_vars

\* a delete has completed while an upload and the download of another song
\* are outstanding, and has left them as they were
C21_Witness ==
  /\ variant = "full"
  /\ songs = <<SongId(2)>>
  /\ message = deletedMessage(SongId(1),
                  [success |-> TRUE, deletedFromDatabase |-> TRUE,
                   deletedFromS3 |-> TRUE, message |-> Undefined])
  /\ uploading
  /\ Len(files) > 0
  /\ delReqs[SongId(1)] = 0
  /\ SongId(1) \notin deletingSongs
  /\ dlReqs[SongId(2)] = 1
  /\ SongId(2) \in downloadingSongs

\* C22: a list fetch that resolves with success true replaces the snapshot
\* by exactly the songs of the reply, or by the empty list when the reply
\* has no songs field; nothing of the previous snapshot survives.
C22_SuccessReplacesSnapshot ==
  [][\A k \in 1..MaxInFlight : \A data \in ListReplies :
       (data.success /\ fetchSampleSongsResolved(k, data)) =>
         /\ data.hasSongs => songs' = data.songs
         /\ ~data.hasSongs => songs' = <<>>
         /\ Range(songs') \subseteq
              (IF data.hasSongs THEN Range(data.songs) ELSE {})]_vars

\* a song of an earlier snapshot was downloaded, and a later successful
\* fetch has replaced that snapshot by the empty list
C22_Witness ==
  /\ variant = "sample"
  /\ saved
  /\ songs = <<>>
  /\ ~loadingSongs
  /\ message = "2 songs found"

\* C23: in every variant the files that an upload's completion drops from
\* the queue were all part of that upload's request.
C23_Original ==
  [][\A k \in 1..MaxInFlight :
       ((\E m \in UploadMessages : handleUploadResolved(k, m))
        \/ handleUploadRejected(k)) =>
         (Range(files) \ Range(files'))
           \subseteq Range(C15_Values(uploadReqs[k], "audio"))]_vars

\* C24: in the variant with deletion at most one request, a download or a
\* delete, is outstanding for an item: neither can be started while the other
\* or a delete of the same item is in flight.
C24_OneRequestPerItem ==
  HasDelete => \A id \in SongIds : dlReqs[id] + delReqs[id] <= 1

\* one item is mid-download and another mid-delete, both on screen
C24_Witness ==
  /\ HasDelete
  /\ SamplesMounted
  /\ dlReqs[SongId(1)] = 1
  /\ delReqs[SongId(2)] = 1
  /\ songs = <<SongId(1), SongId(2)>>

\* C25: at most one list request is outstanding: the load button is disabled
\* while the loading flag is true, so no completion clears the flag while
\* another list request is in flight.
C25_AtMostOneListRequest ==
  /\ Len(listReqs) <= 1
  /\ ~loadingSongs => Len(listReqs) = 0

\* a second fetch is outstanding with the load button on screen, after a
\* song of the first snapshot was downloaded
C25_Witness ==
  /\ variant = "sample"
  /\ SamplesMounted
  /\ loadingSongs
  /\ Len(listReqs) = 1
  /\ saved
====
